---- MODULE Spec2Model ----
(***************************************************************************)
(* greetd: the persisted single-message store (internal/storage), its      *)
(* reader/writer lock, its JSON file message.json, and the HTTP message    *)
(* handlers (internal/api) that sit on top of it.                          *)
(*                                                                         *)
(* Text is a sequence of characters.  A file is a sequence of JSON tokens; *)
(* a string token carries its escaped characters, so encoding and decoding *)
(* are real conversions.  A Go string in memory is a (pointer, length)     *)
(* pair written by two word stores.                                        *)
(***************************************************************************)
EXTENDS Integers, Sequences, FiniteSets, TLC

\* Number of goroutines that call into the stores.
NumProcs == 2

\* Number of calls (store methods and HTTP requests) made in one run.
MaxCalls == 2

Procs == 1..NumProcs

\* Two MessageStore instances on one data directory: the one the api command
\* creates, loads and hands to the HTTP handlers, and one whose methods are
\* called directly (the tests' stores, the set message command's store).
ServerStore == "s1"
OtherStore == "s2"
Stores == {ServerStore, OtherStore}

---------------------------------------------------------------------------
(* Text *)

Quote == "\""
Backslash == "\\"
Junk == "?"

DefaultMessage == <<"H", "e", "l", "l", "o", ",", " ", "W", "o", "r", "l", "d", "!">>

\* unicode.IsSpace, on the characters of the model
IsSpace(c) == c \in {" ", "\t"}

RECURSIVE TrimLeft(_)
TrimLeft(s) ==
    IF s = <<>> THEN s
    ELSE IF IsSpace(Head(s)) THEN TrimLeft(Tail(s)) ELSE s

RECURSIVE TrimRight(_)
TrimRight(s) ==
    IF s = <<>> THEN s
    ELSE IF IsSpace(s[Len(s)]) THEN TrimRight(SubSeq(s, 1, Len(s) - 1)) ELSE s

\* strings.TrimSpace
TrimSpace(s) == TrimRight(TrimLeft(s))

---------------------------------------------------------------------------
(* encoding/json on token sequences *)

Tok(kind) == [t |-> kind, raw |-> <<>>]
StrTok(raw) == [t |-> "str", raw |-> raw]

LBrace == Tok("lbrace")
RBrace == Tok("rbrace")
Colon == Tok("colon")
Comma == Tok("comma")
Null == Tok("null")
Num == Tok("num")

\* the json:"message" tag of MessageData / MessageRequest / MessageResponse
MessageKey == <<"m", "e", "s", "s", "a", "g", "e">>
OtherKey == <<"o">>

\* mutant: the encoder writes the characters as they are
EscapeString_None(s) == s

\* the encoder's string escaping: a quote and a backslash get a backslash
RECURSIVE EscapeString(_)
EscapeString(s) ==
    IF s = <<>> THEN <<>>
    ELSE IF Head(s) \in {Quote, Backslash}
         THEN <<Backslash, Head(s)>> \o EscapeString(Tail(s))
         ELSE <<Head(s)>> \o EscapeString(Tail(s))

\* the scanner's view of the inside of a string literal
RECURSIVE ValidString(_)
ValidString(raw) ==
    IF raw = <<>> THEN TRUE
    ELSE IF Head(raw) = Backslash
         THEN /\ Len(raw) >= 2
              /\ raw[2] \in {Quote, Backslash}
              /\ ValidString(SubSeq(raw, 3, Len(raw)))
         ELSE Head(raw) # Quote /\ ValidString(Tail(raw))

\* the decoder's unquote of a valid string literal
RECURSIVE Unquote(_)
Unquote(raw) ==
    IF raw = <<>> THEN <<>>
    ELSE IF Head(raw) = Backslash
         THEN <<raw[2]>> \o Unquote(SubSeq(raw, 3, Len(raw)))
         ELSE <<Head(raw)>> \o Unquote(Tail(raw))

ValidScalar(tk) ==
    \/ tk.t \in {"null", "num"}
    \/ tk.t = "str" /\ ValidString(tk.raw)

RECURSIVE ValidMembers(_)
ValidMembers(ts) ==
    /\ Len(ts) >= 3
    /\ ts[1].t = "str" /\ ValidString(ts[1].raw)
    /\ ts[2].t = "colon"
    /\ ValidScalar(ts[3])
    /\ \/ Len(ts) = 3
       \/ /\ Len(ts) >= 5
          /\ ts[4].t = "comma"
          /\ ValidMembers(SubSeq(ts, 5, Len(ts)))

\* json.checkValid: the whole input is exactly one JSON value
checkValid(ts) ==
    \/ Len(ts) = 1 /\ ValidScalar(ts[1])
    \/ /\ Len(ts) >= 2
       /\ ts[1].t = "lbrace"
       /\ ts[Len(ts)].t = "rbrace"
       /\ \/ Len(ts) = 2
          \/ ValidMembers(SubSeq(ts, 2, Len(ts) - 1))

\* the decoder walking the members of an object into a struct with one
\* string field tagged "message": a string sets the field, null leaves it,
\* any other value is a type error that is saved while decoding goes on;
\* unknown keys are skipped.
RECURSIVE DecodeMembers(_, _)
DecodeMembers(ts, acc) ==
    IF Len(ts) < 3 THEN acc
    ELSE LET key == Unquote(ts[1].raw)
             v == ts[3]
             acc2 == IF key # MessageKey THEN acc
                     ELSE IF v.t = "str"
                          THEN [acc EXCEPT !.set = TRUE, !.Message = Unquote(v.raw)]
                     ELSE IF v.t = "null" THEN acc
                     ELSE [acc EXCEPT !.err = TRUE]
         IN DecodeMembers(SubSeq(ts, 5, Len(ts)), acc2)

\* json.Unmarshal(data, &v) for v of type MessageData or MessageRequest:
\* err is the returned error, set tells whether v.Message was stored to,
\* and Message is the value stored last.
Unmarshal(ts) ==
    LET none == [err |-> FALSE, set |-> FALSE, Message |-> <<>>]
    IN IF ~checkValid(ts) THEN [none EXCEPT !.err = TRUE]
       ELSE IF Len(ts) = 1
            THEN IF ts[1].t = "null" THEN none ELSE [none EXCEPT !.err = TRUE]
            ELSE DecodeMembers(SubSeq(ts, 2, Len(ts) - 1), none)

\* json.MarshalIndent(MessageData{Message: m}, "", "  ")
MarshalIndent(m) == <<LBrace, StrTok(MessageKey), Colon, StrTok(EscapeString(m)), RBrace>>


---------------------------------------------------------------------------
(* State *)

VARIABLES
    data,       \* data[s]: MessageStore.data.Message of instance s, as the two words of a Go string
    mu,         \* mu[s]: MessageStore.mu of instance s: the writer holding it (0: none), the readers holding it
    file,       \* <dataPath>/message.json: whether it exists, and its content
    pc,         \* pc[p]: where goroutine p stands
    op,         \* op[p]: the method p is in ("Set", "Get", "Load"; "LoadNew" is Load in its missing-file branch), "" when in none
    st,         \* st[p]: the instance p's call is on
    via,        \* via[p]: "http" when the call comes from a handler of the server
    arg,        \* arg[p]: the message being assigned
    buf,        \* buf[p]: the bytes p marshalled or read
    body,       \* body[p]: the body of the POST /message request p handles
    err,        \* err[p]: the error p's call returns
    ret,        \* ret[p]: the text GetMessage returns
    resp,       \* resp[p]: the HTTP response of p's handler
    calls,      \* the number of calls made so far
    old,        \* history: old[p] is the value instance st[p] held when p's call took the lock
    cand,       \* history: cand[p], for a GetMessage in progress: the value held when it was called and the values stored since
    lastOp,     \* history: lastOp[s] is the SetMessage or Load that returned last on instance s
    fileOwner,  \* history: the instance whose call changed the file last
    fileHist,   \* history: the messages the file has held as a complete document
    phase,      \* where the api command's main goroutine stands, from config.Load to serving
    exitCode,   \* the status the process exited with, once phase is "exited"
    cfg,        \* the *config.Config of config.Load and of the commands
    doc,        \* the configuration document at configPath: whether it exists, whether it parses, its keys
    dirs,       \* the directories that exist
    env,        \* the process environment: variable name to value
    flags,      \* the command line as cobra parsed it: each flag's value and whether it was supplied
    logArgs,    \* the arguments logging.Setup was called with
    created,    \* history: config.Load found no document and called Save
    cli         \* the set message command beside the server: where it stands, its arguments, the joined text, the line it printed, its exit status

\* the stores, the goroutines that call them, and their history
svars == <<data, mu, file, pc, op, st, via, arg, buf, body, err, ret, resp, calls,
           old, cand, lastOp, fileOwner, fileHist>>

\* the process, its configuration and its surroundings
cvars == <<phase, exitCode, cfg, doc, dirs, env, flags, logArgs, created, cli>>

vars == <<svars, cvars>>

\* a Go string header: the data pointer (named by the text it points to) and the length
GoString(s) == [ptr |-> s, len |-> Len(s)]

\* the text a string header reads as; a header whose two words come from
\* different stores reads the wrong number of bytes
Value(h) ==
    IF h.len <= Len(h.ptr) THEN SubSeq(h.ptr, 1, h.len)
    ELSE h.ptr \o [i \in 1..(h.len - Len(h.ptr)) |-> Junk]

NoFile == [exists |-> FALSE, bytes |-> <<>>]
FileOf(bytes) == [exists |-> TRUE, bytes |-> bytes]

NoOp == [op |-> "none", ok |-> FALSE, set |-> FALSE, msg |-> <<>>]
NoResp == [code |-> 0, error |-> FALSE, message |-> <<>>]

\* the messages a complete document in the file holds
Held(f) ==
    IF f.exists /\ ~Unmarshal(f.bytes).err /\ Unmarshal(f.bytes).set
    THEN {Unmarshal(f.bytes).Message} ELSE {}

---------------------------------------------------------------------------
(* Inputs *)

MsgA == <<"a">>
MsgB == <<" ", Quote, "b">>
Blank == <<" ", "\t">>

\* the texts passed to SetMessage
Messages == {MsgA, MsgB}

\* what message.json may hold when the program starts
InitFiles ==
    { NoFile,
      FileOf(MarshalIndent(MsgB)),
      FileOf(<<LBrace, StrTok(OtherKey), Colon, Null, RBrace>>),
      FileOf(<<LBrace, StrTok(MessageKey), Colon, Num, RBrace>>) }

\* the argument lists of set message (cobra.MinimumNArgs(1)): one text with
\* a leading blank and a quote, two words, and two arguments that join to
\* blanks only
ArgLists == { <<MsgB>>, <<MsgA, <<"b">>>>, <<<<>>, <<"\t">>>> }

\* documents on which Load returns an error: one whose "message" comes
\* twice, as a string and then as a number, and one cut short
TwiceDoc ==
    <<LBrace, StrTok(MessageKey), Colon, StrTok(MsgA), Comma,
      StrTok(MessageKey), Colon, Num, RBrace>>
CutDoc == <<LBrace, StrTok(MessageKey), Colon>>
LoadFiles == {FileOf(TwiceDoc), FileOf(CutDoc)}

\* the bodies POST /message is sent
Bodies ==
    { MarshalIndent(MsgB),
      MarshalIndent(<<>>),
      MarshalIndent(Blank),
      <<LBrace, StrTok(MessageKey), Colon, RBrace>>,
      <<LBrace, StrTok(MessageKey), Colon, Num, RBrace>> }

---------------------------------------------------------------------------
(* internal/config: values, keys, environment names, viper's lookup *)

LowerCase == <<"a", "b", "c", "d", "e", "f", "g", "h", "i", "j", "k", "l", "m", "n", "o", "p", "q", "r", "s", "t", "u", "v", "w", "x", "y", "z">>
UpperCase == <<"A", "B", "C", "D", "E", "F", "G", "H", "I", "J", "K", "L", "M", "N", "O", "P", "Q", "R", "S", "T", "U", "V", "W", "X", "Y", "Z">>
Digits == <<"0", "1", "2", "3", "4", "5", "6", "7", "8", "9">>

\* strings.ToUpper
ToUpper(s) ==
    [i \in 1..Len(s) |->
        IF \E j \in 1..Len(LowerCase) : LowerCase[j] = s[i]
        THEN UpperCase[CHOOSE j \in 1..Len(LowerCase) : LowerCase[j] = s[i]]
        ELSE s[i]]

RECURSIVE Atoi(_, _)
Atoi(s, acc) ==
    IF s = <<>> THEN acc
    ELSE Atoi(Tail(s), 10 * acc + (CHOOSE d \in 1..Len(Digits) : Digits[d] = Head(s)) - 1)

\* strconv.ParseInt of a decimal text
ParseInt(s) ==
    IF s = <<>> \/ \E i \in 1..Len(s) : \A d \in 1..Len(Digits) : Digits[d] # s[i]
    THEN [ok |-> FALSE, n |-> 0]
    ELSE [ok |-> TRUE, n |-> Atoi(s, 0)]

\* strconv.Itoa of a number that is not negative
RECURSIVE Itoa(_)
Itoa(n) ==
    IF n < 10 THEN <<Digits[n + 1]>>
    ELSE Itoa(n \div 10) \o <<Digits[(n % 10) + 1]>>

\* a value as viper holds it: a string (from a document, the environment
\* or a flag) or a number (from a document, a flag or a default)
StrVal(s) == [t |-> "str", s |-> s, n |-> 0]
IntVal(n) == [t |-> "int", s |-> <<>>, n |-> n]

\* viper's keys of the Config fields: the mapstructure tags joined by "."
KeyHost == <<"s", "e", "r", "v", "e", "r", ".", "h", "o", "s", "t">>
KeyPort == <<"s", "e", "r", "v", "e", "r", ".", "p", "o", "r", "t">>
KeyLevel == <<"l", "o", "g", "g", "i", "n", "g", ".", "l", "e", "v", "e", "l">>
KeyFormat == <<"l", "o", "g", "g", "i", "n", "g", ".", "f", "o", "r", "m", "a", "t">>
KeyDataPath == <<"d", "a", "t", "a", "_", "p", "a", "t", "h">>
ConfigKeys == {KeyHost, KeyPort, KeyLevel, KeyFormat, KeyDataPath}

\* the environment variables the README documents
EnvServerHost == <<"G", "R", "E", "E", "T", "D", "_", "S", "E", "R", "V", "E", "R", "_", "H", "O", "S", "T">>
EnvServerPort == <<"G", "R", "E", "E", "T", "D", "_", "S", "E", "R", "V", "E", "R", "_", "P", "O", "R", "T">>
EnvLoggingLevel == <<"G", "R", "E", "E", "T", "D", "_", "L", "O", "G", "G", "I", "N", "G", "_", "L", "E", "V", "E", "L">>
EnvLoggingFormat == <<"G", "R", "E", "E", "T", "D", "_", "L", "O", "G", "G", "I", "N", "G", "_", "F", "O", "R", "M", "A", "T">>
EnvDataPath == <<"G", "R", "E", "E", "T", "D", "_", "D", "A", "T", "A", "_", "P", "A", "T", "H">>

\* filepath.Join(homeDir, ".greetd"), and another directory
DefaultDataPath == <<"~", "/", ".", "g", "r", "e", "e", "t", "d">>
OtherDataPath == <<"/", "s", "r", "v">>
EnvDataDir == <<"/", "e", "n", "v">>

\* DefaultConfig()
DefaultConfig ==
    [host |-> <<"0", ".", "0", ".", "0", ".", "0">>, port |-> 8080,
     level |-> <<"i", "n", "f", "o">>, format |-> <<"t", "e", "x", "t">>,
     dataPath |-> DefaultDataPath]

\* the keys and values of json.MarshalIndent(c): what Save writes, and what
\* viper.SetDefault is given
SavedFields(c) ==
    (KeyHost :> StrVal(c.host)) @@ (KeyPort :> IntVal(c.port))
    @@ (KeyLevel :> StrVal(c.level)) @@ (KeyFormat :> StrVal(c.format))
    @@ (KeyDataPath :> StrVal(c.dataPath))

\* no document; a document that parses to these keys; bytes that do not parse
NoDoc == [exists |-> FALSE, ok |-> FALSE, fields |-> <<>>]
DocOf(fields) == [exists |-> TRUE, ok |-> TRUE, fields |-> fields]
BrokenDoc == [exists |-> TRUE, ok |-> FALSE, fields |-> <<>>]

\* viper.SetEnvPrefix("GREETD")
EnvPrefix == <<"G", "R", "E", "E", "T", "D">>

\* viper's mergeWithEnvPrefix: ToUpper(prefix + "_" + key); no key replacer
\* is set, so the "." of a key stays
mergeWithEnvPrefix(key) == ToUpper(EnvPrefix \o <<"_">> \o key)

\* viper's getEnv: os.LookupEnv, an empty value counting as unset
getEnv(e, name) ==
    IF name \in DOMAIN e /\ e[name] # <<>>
    THEN [ok |-> TRUE, val |-> e[name]]
    ELSE [ok |-> FALSE, val |-> <<>>]

\* the flags of the root command and of the api command with their
\* defaults, none supplied
NoFlags ==
    [logLevel |-> <<"i", "n", "f", "o">>, logLevelSet |-> FALSE,
     logFormat |-> <<"t", "e", "x", "t">>, logFormatSet |-> FALSE,
     host |-> <<>>, hostSet |-> FALSE,
     port |-> 0, portSet |-> FALSE]

\* viper.BindPFlag: the flag bound to a key, and whether it was supplied
PFlag(f, key) ==
    IF key = KeyLevel THEN [changed |-> f.logLevelSet, val |-> StrVal(f.logLevel)]
    ELSE IF key = KeyFormat THEN [changed |-> f.logFormatSet, val |-> StrVal(f.logFormat)]
    ELSE IF key = KeyHost THEN [changed |-> f.hostSet, val |-> StrVal(f.host)]
    ELSE IF key = KeyPort THEN [changed |-> f.portSet, val |-> IntVal(f.port)]
    ELSE [changed |-> FALSE, val |-> StrVal(<<>>)]

\* mutant: the document is not consulted
Find_NoDocument(f, e, d, key) ==
    IF PFlag(f, key).changed THEN PFlag(f, key).val
    ELSE IF getEnv(e, mergeWithEnvPrefix(key)).ok
         THEN StrVal(getEnv(e, mergeWithEnvPrefix(key)).val)
    ELSE SavedFields(DefaultConfig)[key]

\* viper's find: a supplied flag, then the environment (AutomaticEnv), then
\* the document, then the default set from DefaultConfig
Find(f, e, d, key) ==
    IF PFlag(f, key).changed THEN PFlag(f, key).val
    ELSE IF getEnv(e, mergeWithEnvPrefix(key)).ok
         THEN StrVal(getEnv(e, mergeWithEnvPrefix(key)).val)
    ELSE IF d.ok /\ key \in DOMAIN d.fields THEN d.fields[key]
    ELSE SavedFields(DefaultConfig)[key]

\* mapstructure decoding into a string field, weakly typed
decodeString(x) == IF x.t = "str" THEN x.s ELSE Itoa(x.n)

\* mapstructure decoding into an int field, weakly typed: a string is parsed,
\* the empty string as 0
decodeInt(x) ==
    IF x.t = "int" THEN [ok |-> TRUE, n |-> x.n]
    ELSE IF x.s = <<>> THEN [ok |-> TRUE, n |-> 0]
    ELSE ParseInt(x.s)

\* viper.Unmarshal(cfg)
ViperUnmarshal(f, e, d) ==
    [err |-> ~decodeInt(Find(f, e, d, KeyPort)).ok,
     cfg |-> [host |-> decodeString(Find(f, e, d, KeyHost)),
              port |-> decodeInt(Find(f, e, d, KeyPort)).n,
              level |-> decodeString(Find(f, e, d, KeyLevel)),
              format |-> decodeString(Find(f, e, d, KeyFormat)),
              dataPath |-> decodeString(Find(f, e, d, KeyDataPath))]]

\* logrus.ParseLevel accepts these names
LogLevels == {<<"p", "a", "n", "i", "c">>, <<"f", "a", "t", "a", "l">>, <<"e", "r", "r", "o", "r">>, <<"w", "a", "r", "n">>, <<"w", "a", "r", "n", "i", "n", "g">>, <<"i", "n", "f", "o">>, <<"d", "e", "b", "u", "g">>, <<"t", "r", "a", "c", "e">>}

---------------------------------------------------------------------------
(* Inputs of the configuration *)

\* the configuration documents found at startup
FullDoc ==
    DocOf((KeyHost :> StrVal(<<"1", "0", ".", "0", ".", "0", ".", "1">>)) @@ (KeyPort :> IntVal(9000))
          @@ (KeyLevel :> StrVal(<<"d", "e", "b", "u", "g">>)) @@ (KeyFormat :> StrVal(<<"j", "s", "o", "n">>))
          @@ (KeyDataPath :> StrVal(OtherDataPath)))
PortDoc == DocOf(KeyPort :> IntVal(9000))

\* configurations that were saved with Config.Save: the one FullDoc is the
\* document of, and one whose host, port and data path are the zero values
FullConfig ==
    [host |-> <<"1", "0", ".", "0", ".", "0", ".", "1">>, port |-> 9000,
     level |-> <<"d", "e", "b", "u", "g">>, format |-> <<"j", "s", "o", "n">>,
     dataPath |-> OtherDataPath]
BareConfig == [DefaultConfig EXCEPT !.host = <<>>, !.port = 0, !.dataPath = <<>>]
SavedConfigs == {FullConfig, BareConfig}
BareDoc == DocOf(SavedFields(BareConfig))

ConfigDocs == {NoDoc, FullDoc, PortDoc, BrokenDoc, BareDoc}

\* the environments: every documented variable set, one of them, none, and
\* a variable spelt the way viper looks the port up
AllEnv ==
    (EnvServerHost :> <<"1", "0", ".", "0", ".", "0", ".", "2">>) @@ (EnvServerPort :> <<"9", "1", "0", "0">>)
    @@ (EnvLoggingLevel :> <<"e", "r", "r", "o", "r">>) @@ (EnvLoggingFormat :> <<"j", "s", "o", "n">>)
    @@ (EnvDataPath :> EnvDataDir)
NoEnv == <<>>
DottedEnv == (mergeWithEnvPrefix(KeyPort) :> <<"9", "1", "0", "0">>)
BadPortEnv == (mergeWithEnvPrefix(KeyPort) :> <<"x">>)
Envs ==
    {NoEnv, AllEnv, DottedEnv, BadPortEnv}
    \cup {[name \in {v} |-> AllEnv[name]] : v \in DOMAIN AllEnv}

\* the command lines
FlagSets ==
    { NoFlags,
      [NoFlags EXCEPT !.port = 9200, !.portSet = TRUE],
      [NoFlags EXCEPT !.logLevel = <<"w", "a", "r", "n">>, !.logLevelSet = TRUE,
                      !.logFormat = <<"j", "s", "o", "n">>, !.logFormatSet = TRUE],
      [NoFlags EXCEPT !.logLevel = <<"w", "a", "r", "n">>, !.logLevelSet = TRUE,
                      !.logFormat = <<"j", "s", "o", "n">>, !.logFormatSet = TRUE,
                      !.host = <<"1", "0", ".", "0", ".", "0", ".", "3">>, !.hostSet = TRUE,
                      !.port = 9200, !.portSet = TRUE],
      [NoFlags EXCEPT !.logLevel = <<"l", "o", "u", "d">>, !.logLevelSet = TRUE] }

\* the working directory, which the empty path names
WorkDir == <<>>

\* the directories that exist at startup
DirSets == {{WorkDir}, {WorkDir, DefaultDataPath}, {WorkDir, DefaultDataPath, OtherDataPath}}

---------------------------------------------------------------------------
(* Construction *)

\* NewMessageStore on both instances, no goroutine inside either; f is
\* what message.json may hold
InitStores(f) ==
    /\ data = [s \in Stores |-> GoString(DefaultMessage)]
    /\ mu = [s \in Stores |-> [w |-> 0, r |-> {}]]
    /\ file \in f
    /\ pc = [p \in Procs |-> "idle"]
    /\ op = [p \in Procs |-> ""]
    /\ st = [p \in Procs |-> ServerStore]
    /\ via = [p \in Procs |-> ""]
    /\ arg = [p \in Procs |-> <<>>]
    /\ buf = [p \in Procs |-> <<>>]
    /\ body = [p \in Procs |-> <<>>]
    /\ err = [p \in Procs |-> FALSE]
    /\ ret = [p \in Procs |-> <<>>]
    /\ resp = [p \in Procs |-> NoResp]
    /\ calls = 0
    /\ old = [p \in Procs |-> <<>>]
    /\ cand = [p \in Procs |-> {}]
    /\ lastOp = [s \in Stores |-> NoOp]
    /\ fileOwner = "none"
    /\ fileHist = Held(file)

\* the set message command is not running
NoCli == [pc |-> "none", args |-> <<>>, message |-> <<>>, out |-> "", exit |-> -1]

\* logging.Setup has not been called
NoLogArgs == [level |-> <<>>, format |-> <<>>, dataPath |-> <<>>]

\* the stores of a server that runs on the default configuration, and of
\* the callers beside it
Init ==
    /\ InitStores(InitFiles)
    /\ phase = "serving"
    /\ exitCode = 0
    /\ cfg = DefaultConfig
    /\ doc = DocOf(SavedFields(DefaultConfig))
    /\ dirs = {DefaultDataPath}
    /\ env = NoEnv
    /\ flags = NoFlags
    /\ logArgs = [level |-> DefaultConfig.level, format |-> DefaultConfig.format,
                  dataPath |-> DefaultConfig.dataPath]
    /\ created = FALSE
    /\ cli = NoCli

\* a command starts: nothing loaded yet, any document, environment, command
\* line and directories
InitConfig ==
    /\ InitStores({NoFile})
    /\ phase = "start"
    /\ exitCode = 0
    /\ cfg = DefaultConfig
    /\ doc \in ConfigDocs
    /\ dirs \in DirSets
    /\ env \in Envs
    /\ flags \in FlagSets
    /\ logArgs = NoLogArgs
    /\ created = FALSE
    /\ cli = NoCli

\* the api command starts with no flags and an empty environment
InitApi ==
    /\ InitStores(InitFiles)
    /\ phase = "start"
    /\ exitCode = 0
    /\ cfg = DefaultConfig
    /\ doc \in {NoDoc, PortDoc, BrokenDoc}
    /\ dirs \in {{}, {DefaultDataPath}}
    /\ env = NoEnv
    /\ flags = NoFlags
    /\ logArgs = NoLogArgs
    /\ created = FALSE
    /\ cli = NoCli

\* the set message command is about to be run on a data directory that was
\* empty: either beside a server that started there and wrote the default
\* message, or with no server; the configuration document is the default
\* one or does not parse
InitCli ==
    /\ InitStores({NoFile, FileOf(MarshalIndent(DefaultMessage))})
    /\ phase = IF file.exists THEN "serving" ELSE "start"
    /\ exitCode = 0
    /\ cfg = DefaultConfig
    /\ doc \in {DocOf(SavedFields(DefaultConfig)), BrokenDoc}
    /\ dirs = {DefaultDataPath}
    /\ env = NoEnv
    /\ flags = NoFlags
    /\ logArgs = [level |-> DefaultConfig.level, format |-> DefaultConfig.format,
                  dataPath |-> DefaultConfig.dataPath]
    /\ created = FALSE
    /\ cli = NoCli

\* stores created on a directory whose message.json does not load
InitLoad ==
    /\ InitStores(LoadFiles)
    /\ phase = "serving"
    /\ exitCode = 0
    /\ cfg = DefaultConfig
    /\ doc = DocOf(SavedFields(DefaultConfig))
    /\ dirs = {DefaultDataPath}
    /\ env = NoEnv
    /\ flags = NoFlags
    /\ logArgs = [level |-> DefaultConfig.level, format |-> DefaultConfig.format,
                  dataPath |-> DefaultConfig.dataPath]
    /\ created = FALSE
    /\ cli = NoCli

---------------------------------------------------------------------------
(* sync.RWMutex *)

\* mutant: Lock does not wait
CanLock_NoWait(s) == TRUE

\* mutant: RLock does not wait for the writer
CanRLock_NoWait(s) == TRUE

\* Lock returns only when no writer and no reader holds the mutex
CanLock(s) == mu[s].w = 0 /\ mu[s].r = {}

\* RLock returns only when no writer holds the mutex
CanRLock(s) == mu[s].w = 0

---------------------------------------------------------------------------
(* Goroutines and history bookkeeping *)

\* a new call runs on the first free goroutine, while calls remain
CanStart(p) ==
    /\ pc[p] = "idle"
    /\ calls < MaxCalls
    /\ \A q \in Procs : q < p => pc[q] # "idle"

\* the value instance s holds: while a store to data[s] is half done, the
\* value it held when the storing call took the lock
Committed(s) ==
    IF \E w \in Procs : st[w] = s /\ pc[w] = "AssignLen"
    THEN old[CHOOSE w \in Procs : st[w] = s /\ pc[w] = "AssignLen"]
    ELSE Value(data[s])

\* a complete store to data[s] becomes a value a GetMessage in progress on s may return
Stored(s, v) ==
    cand' = [q \in Procs |->
                IF op[q] = "Get" /\ st[q] = s /\ pc[q] = "RLock"
                THEN cand[q] \cup {v} ELSE cand[q]]

\* the file was changed to f by a call on instance s
Wrote(s, f) ==
    /\ fileOwner' = s
    /\ fileHist' = fileHist \cup Held(f)

\* p's call is over: its locals die
Return(p) ==
    /\ pc' = [pc EXCEPT ![p] = "idle"]
    /\ op' = [op EXCEPT ![p] = ""]
    /\ via' = [via EXCEPT ![p] = ""]
    /\ st' = [st EXCEPT ![p] = ServerStore]
    /\ arg' = [arg EXCEPT ![p] = <<>>]
    /\ buf' = [buf EXCEPT ![p] = <<>>]
    /\ body' = [body EXCEPT ![p] = <<>>]
    /\ err' = [err EXCEPT ![p] = FALSE]
    /\ ret' = [ret EXCEPT ![p] = <<>>]
    /\ resp' = [resp EXCEPT ![p] = NoResp]
    /\ old' = [old EXCEPT ![p] = <<>>]
    /\ cand' = [cand EXCEPT ![p] = {}]

---------------------------------------------------------------------------
(* MessageStore.SetMessage *)

\* a goroutine calls store.SetMessage(m)
SetMessageCall(p) ==
    /\ CanStart(p)
    /\ st' = [st EXCEPT ![p] = OtherStore]
    /\ \E m \in Messages : arg' = [arg EXCEPT ![p] = m]
    /\ op' = [op EXCEPT ![p] = "Set"]
    /\ pc' = [pc EXCEPT ![p] = "Lock"]
    /\ calls' = calls + 1
    /\ UNCHANGED <<cvars, data, mu, file, via, buf, body, err, ret, resp, old, cand, lastOp, fileOwner, fileHist>>

\* s.mu.Lock(), and of s.data.Message = message the store of the data pointer
SetMessageLock(p) ==
    /\ pc[p] = "Lock"
    /\ op[p] = "Set"
    /\ CanLock(st[p])
    /\ mu' = [mu EXCEPT ![st[p]].w = p]
    /\ old' = [old EXCEPT ![p] = Value(data[st[p]])]
    /\ data' = [data EXCEPT ![st[p]].ptr = arg[p]]
    /\ pc' = [pc EXCEPT ![p] = "AssignLen"]
    /\ UNCHANGED <<cvars, file, op, st, via, arg, buf, body, err, ret, resp, calls, cand, lastOp, fileOwner, fileHist>>

\* of s.data.Message = message the store of the length (in SetMessage, and
\* in Load where the decoder stores the field)
AssignLen(p) ==
    /\ pc[p] = "AssignLen"
    /\ data' = [data EXCEPT ![st[p]].len = Len(arg[p])]
    /\ Stored(st[p], Value(data'[st[p]]))
    /\ pc' = [pc EXCEPT ![p] = IF op[p] = "Set" THEN "SaveOpen" ELSE "Unlock"]
    /\ UNCHANGED <<cvars, mu, file, op, st, via, arg, buf, body, err, ret, resp, calls, old, lastOp, fileOwner, fileHist>>

---------------------------------------------------------------------------
(* MessageStore.saveUnsafe *)

\* what a failed write of bytes b leaves in the file: a part of b, here
\* all but its end
ShortWrites(b) == {SubSeq(b, 1, Len(b) - 1)}

\* json.MarshalIndent(s.data), then os.WriteFile opening the file with
\* O_WRONLY|O_CREATE|O_TRUNC: the open fails and leaves the file alone, or
\* it leaves an empty file
saveUnsafeOpen(p) ==
    /\ pc[p] = "SaveOpen"
    /\ \/ /\ err' = [err EXCEPT ![p] = TRUE]
          /\ pc' = [pc EXCEPT ![p] = "Unlock"]
          /\ UNCHANGED <<file, buf, fileOwner, fileHist>>
       \/ /\ buf' = [buf EXCEPT ![p] = MarshalIndent(Value(data[st[p]]))]
          /\ file' = FileOf(<<>>)
          /\ Wrote(st[p], file')
          /\ pc' = [pc EXCEPT ![p] = "SaveWrite"]
          /\ UNCHANGED err
    /\ UNCHANGED <<cvars, data, mu, op, st, via, arg, body, ret, resp, calls, old, cand, lastOp>>

\* mutant: a write that fails is tried again from the open
saveUnsafeWrite_Retry(p) ==
    /\ pc[p] = "SaveWrite"
    /\ \/ /\ file' = FileOf(buf[p])
          /\ pc' = [pc EXCEPT ![p] = "Unlock"]
       \/ /\ \E b \in ShortWrites(buf[p]) : file' = FileOf(b)
          /\ pc' = [pc EXCEPT ![p] = "SaveOpen"]
    /\ Wrote(st[p], file')
    /\ UNCHANGED <<cvars, data, mu, op, st, via, arg, buf, body, err, ret, resp, calls, old, cand, lastOp>>

\* os.WriteFile writing the bytes: all of them, or on a failure only some
saveUnsafeWrite(p) ==
    /\ pc[p] = "SaveWrite"
    /\ \/ /\ file' = FileOf(buf[p])
          /\ UNCHANGED err
       \/ /\ \E b \in ShortWrites(buf[p]) : file' = FileOf(b)
          /\ err' = [err EXCEPT ![p] = TRUE]
    /\ Wrote(st[p], file')
    /\ pc' = [pc EXCEPT ![p] = "Unlock"]
    /\ UNCHANGED <<cvars, data, mu, op, st, via, arg, buf, body, ret, resp, calls, old, cand, lastOp>>

\* mutant: the handler echoes the trimmed text
SetMessageResponse_Trimmed(p) ==
    IF err[p] THEN [code |-> 500, error |-> TRUE, message |-> <<>>]
    ELSE [code |-> 200, error |-> FALSE, message |-> TrimSpace(arg[p])]

\* what the handler answers once store.SetMessage has returned
SetMessageResponse(p) ==
    IF err[p] THEN [code |-> 500, error |-> TRUE, message |-> <<>>]
    ELSE [code |-> 200, error |-> FALSE, message |-> arg[p]]

\* the record of p's SetMessage or Load as it returns
Returned(p) ==
    [op |-> op[p],
     ok |-> ~err[p],
     set |-> IF op[p] = "Load" THEN Unmarshal(buf[p]).set ELSE TRUE,
     msg |-> IF op[p] = "Set" THEN arg[p]
             ELSE IF op[p] = "Load" THEN Unmarshal(buf[p]).Message
             ELSE <<>>]

\* the deferred s.mu.Unlock() of SetMessage and of Load, and the return
\* (to the handler, when a handler made the call)
Unlock(p) ==
    /\ pc[p] = "Unlock"
    /\ mu' = [mu EXCEPT ![st[p]].w = 0]
    /\ lastOp' = [lastOp EXCEPT ![st[p]] = Returned(p)]
    /\ IF via[p] = "http"
       THEN /\ resp' = [resp EXCEPT ![p] = SetMessageResponse(p)]
            /\ pc' = [pc EXCEPT ![p] = "Respond"]
            /\ UNCHANGED <<op, st, via, arg, buf, body, err, ret, old, cand>>
       ELSE Return(p)
    /\ UNCHANGED <<cvars, data, file, calls, fileOwner, fileHist>>

---------------------------------------------------------------------------
(* MessageStore.Load *)

\* a goroutine calls store.Load(), on either instance
LoadCall(p) ==
    /\ CanStart(p)
    /\ \E s \in Stores : st' = [st EXCEPT ![p] = s]
    /\ op' = [op EXCEPT ![p] = "Load"]
    /\ pc' = [pc EXCEPT ![p] = "Lock"]
    /\ calls' = calls + 1
    /\ UNCHANGED <<cvars, data, mu, file, via, arg, buf, body, err, ret, resp, old, cand, lastOp, fileOwner, fileHist>>

\* s.mu.Lock(), then os.Stat(s.filePath): a missing file sends Load to
\* saveUnsafe with the value the instance holds; anything else sends it on
\* to os.ReadFile
LoadLock(p) ==
    /\ pc[p] = "Lock"
    /\ op[p] = "Load"
    /\ CanLock(st[p])
    /\ mu' = [mu EXCEPT ![st[p]].w = p]
    /\ old' = [old EXCEPT ![p] = Value(data[st[p]])]
    /\ IF ~file.exists
       THEN /\ op' = [op EXCEPT ![p] = "LoadNew"]
            /\ pc' = [pc EXCEPT ![p] = "SaveOpen"]
       ELSE /\ pc' = [pc EXCEPT ![p] = "ReadFile"]
            /\ UNCHANGED op
    /\ UNCHANGED <<cvars, data, file, st, via, arg, buf, body, err, ret, resp, calls, cand, lastOp, fileOwner, fileHist>>

\* mutant: a document that does not decode is replaced by the value in
\* memory, and Load goes on as if it had found no file
LoadReadFile_Reset(p) ==
    /\ pc[p] = "ReadFile"
    /\ file.exists
    /\ buf' = [buf EXCEPT ![p] = file.bytes]
    /\ LET r == Unmarshal(file.bytes)
       IN IF r.err
          THEN /\ pc' = [pc EXCEPT ![p] = "SaveOpen"]
               /\ UNCHANGED <<arg, data>>
          ELSE IF r.set
          THEN /\ arg' = [arg EXCEPT ![p] = r.Message]
               /\ data' = [data EXCEPT ![st[p]].ptr = r.Message]
               /\ pc' = [pc EXCEPT ![p] = "AssignLen"]
          ELSE /\ pc' = [pc EXCEPT ![p] = "Unlock"]
               /\ UNCHANGED <<arg, data>>
    /\ UNCHANGED <<cvars, mu, file, op, st, via, body, err, ret, resp, calls, old, cand, lastOp, fileOwner, fileHist>>

\* mutant: the document is decoded into a local value, not into s.data
LoadReadFile_Local(p) ==
    /\ pc[p] = "ReadFile"
    /\ file.exists
    /\ buf' = [buf EXCEPT ![p] = file.bytes]
    /\ err' = [err EXCEPT ![p] = Unmarshal(file.bytes).err]
    /\ pc' = [pc EXCEPT ![p] = "Unlock"]
    /\ UNCHANGED <<cvars, data, mu, file, op, st, via, arg, body, ret, resp, calls, old, cand, lastOp, fileOwner, fileHist>>

\* os.ReadFile(s.filePath), the bytes of the file or an error, then
\* json.Unmarshal(data, &s.data): a syntax error leaves s.data alone; a
\* document with a string "message" is stored into s.data.Message (the
\* pointer here, the length in AssignLen) even when Unmarshal goes on to
\* return a type error; a document without one leaves s.data alone
LoadReadFile(p) ==
    /\ pc[p] = "ReadFile"
    /\ \/ /\ err' = [err EXCEPT ![p] = TRUE]
          /\ pc' = [pc EXCEPT ![p] = "Unlock"]
          /\ UNCHANGED <<buf, arg, data>>
       \/ /\ file.exists
          /\ buf' = [buf EXCEPT ![p] = file.bytes]
          /\ LET r == Unmarshal(file.bytes)
             IN /\ err' = [err EXCEPT ![p] = r.err]
                /\ IF r.set
                   THEN /\ arg' = [arg EXCEPT ![p] = r.Message]
                        /\ data' = [data EXCEPT ![st[p]].ptr = r.Message]
                        /\ pc' = [pc EXCEPT ![p] = "AssignLen"]
                   ELSE /\ pc' = [pc EXCEPT ![p] = "Unlock"]
                        /\ UNCHANGED <<arg, data>>
    /\ UNCHANGED <<cvars, mu, file, op, st, via, body, ret, resp, calls, old, cand, lastOp, fileOwner, fileHist>>

---------------------------------------------------------------------------
(* MessageStore.GetMessage *)

\* a goroutine calls store.GetMessage()
GetMessageCall(p) ==
    /\ CanStart(p)
    /\ st' = [st EXCEPT ![p] = OtherStore]
    /\ cand' = [cand EXCEPT ![p] = {Committed(OtherStore)}]
    /\ op' = [op EXCEPT ![p] = "Get"]
    /\ pc' = [pc EXCEPT ![p] = "RLock"]
    /\ calls' = calls + 1
    /\ UNCHANGED <<cvars, data, mu, file, via, arg, buf, body, err, ret, resp, old, lastOp, fileOwner, fileHist>>

\* mutant: GetMessage reads the file through into memory before it returns
RLock_Reload(p) ==
    /\ pc[p] = "RLock"
    /\ CanRLock(st[p])
    /\ mu' = [mu EXCEPT ![st[p]].r = @ \cup {p}]
    /\ LET v == IF file.exists /\ ~Unmarshal(file.bytes).err /\ Unmarshal(file.bytes).set
                 THEN Unmarshal(file.bytes).Message
                 ELSE Value(data[st[p]])
       IN /\ data' = [data EXCEPT ![st[p]] = GoString(v)]
          /\ ret' = [ret EXCEPT ![p] = v]
    /\ pc' = [pc EXCEPT ![p] = "RUnlock"]
    /\ UNCHANGED <<cvars, file, op, st, via, arg, buf, body, err, resp, calls, old, cand, lastOp, fileOwner, fileHist>>

\* s.mu.RLock(), then return s.data.Message: the read of the string
RLock(p) ==
    /\ pc[p] = "RLock"
    /\ CanRLock(st[p])
    /\ mu' = [mu EXCEPT ![st[p]].r = @ \cup {p}]
    /\ ret' = [ret EXCEPT ![p] = Value(data[st[p]])]
    /\ pc' = [pc EXCEPT ![p] = "RUnlock"]
    /\ UNCHANGED <<cvars, data, file, op, st, via, arg, buf, body, err, resp, calls, old, cand, lastOp, fileOwner, fileHist>>

\* the deferred s.mu.RUnlock(), and the return (to the handler, when a
\* handler made the call)
RUnlock(p) ==
    /\ pc[p] = "RUnlock"
    /\ mu' = [mu EXCEPT ![st[p]].r = @ \ {p}]
    /\ IF via[p] = "http"
       THEN /\ resp' = [resp EXCEPT ![p] = [code |-> 200, error |-> FALSE, message |-> ret[p]]]
            /\ pc' = [pc EXCEPT ![p] = "Respond"]
            /\ UNCHANGED <<op, st, via, arg, buf, body, err, ret, old, cand>>
       ELSE Return(p)
    /\ UNCHANGED <<cvars, data, file, calls, lastOp, fileOwner, fileHist>>

---------------------------------------------------------------------------
(* Handlers *)

\* c.Bind(&req) on a JSON body: an empty body binds nothing; otherwise the
\* body is decoded into a zero MessageRequest
Bind(b) ==
    IF b = <<>> THEN [err |-> FALSE, set |-> FALSE, Message |-> <<>>]
    ELSE Unmarshal(b)

\* mutant: the message is tested without strings.TrimSpace
BadRequest_NoTrim(b) == Bind(b).err \/ Bind(b).Message = <<>>

\* the request is refused before the store is called
BadRequest(b) == Bind(b).err \/ TrimSpace(Bind(b).Message) = <<>>

\* Handlers.GetMessage: GET /message on the server's store, once the
\* server has been started
HandlersGetMessage(p) ==
    /\ phase = "serving"
    /\ CanStart(p)
    /\ st' = [st EXCEPT ![p] = ServerStore]
    /\ cand' = [cand EXCEPT ![p] = {Committed(ServerStore)}]
    /\ op' = [op EXCEPT ![p] = "Get"]
    /\ via' = [via EXCEPT ![p] = "http"]
    /\ pc' = [pc EXCEPT ![p] = "RLock"]
    /\ calls' = calls + 1
    /\ UNCHANGED <<cvars, data, mu, file, arg, buf, body, err, ret, resp, old, lastOp, fileOwner, fileHist>>

\* Handlers.SetMessage: POST /message with body b, up to the call of
\* store.SetMessage
HandlersSetMessage(p) ==
    /\ phase = "serving"
    /\ CanStart(p)
    /\ \E b \in Bodies :
          /\ body' = [body EXCEPT ![p] = b]
          /\ IF BadRequest(b)
             THEN /\ resp' = [resp EXCEPT ![p] = [code |-> 400, error |-> TRUE, message |-> <<>>]]
                  /\ pc' = [pc EXCEPT ![p] = "Respond"]
                  /\ UNCHANGED <<arg, op>>
             ELSE /\ arg' = [arg EXCEPT ![p] = Bind(b).Message]
                  /\ op' = [op EXCEPT ![p] = "Set"]
                  /\ pc' = [pc EXCEPT ![p] = "Lock"]
                  /\ UNCHANGED resp
    /\ st' = [st EXCEPT ![p] = ServerStore]
    /\ via' = [via EXCEPT ![p] = "http"]
    /\ calls' = calls + 1
    /\ UNCHANGED <<cvars, data, mu, file, buf, err, ret, old, cand, lastOp, fileOwner, fileHist>>

\* mutant: a handler that answers 500 ends the process
Respond_Fatal(p) ==
    /\ pc[p] = "Respond"
    /\ Return(p)
    /\ IF resp[p].code = 500
       THEN phase' = "exited" /\ exitCode' = 1
       ELSE UNCHANGED <<phase, exitCode>>
    /\ UNCHANGED <<cfg, doc, dirs, env, flags, logArgs, created, cli>>
    /\ UNCHANGED <<data, mu, file, calls, lastOp, fileOwner, fileHist>>

\* c.JSON(...): the response is sent and the handler returns
Respond(p) ==
    /\ pc[p] = "Respond"
    /\ Return(p)
    /\ UNCHANGED <<cvars, data, mu, file, calls, lastOp, fileOwner, fileHist>>

---------------------------------------------------------------------------
(* config.Load, loadConfigAndLogger, apiCmd.Run *)

\* config.Load: cfg := DefaultConfig(), then os.MkdirAll(cfg.DataPath, 0755),
\* which creates the directory or fails
ConfigLoad ==
    /\ phase = "start"
    /\ cfg' = DefaultConfig
    /\ \/ /\ dirs' = dirs \cup {DefaultConfig.dataPath}
          /\ phase' = "stat"
       \/ /\ DefaultConfig.dataPath \notin dirs
          /\ phase' = "cfgfail"
          /\ UNCHANGED dirs
    /\ UNCHANGED <<svars, cli, exitCode, doc, env, flags, logArgs, created>>

\* mutant: the defaults are written at every start
ConfigStat_Always ==
    /\ phase = "stat"
    /\ created' = TRUE
    /\ doc' = DocOf(SavedFields(cfg))
    /\ phase' = "read"
    /\ UNCHANGED <<svars, cli, exitCode, cfg, dirs, env, flags, logArgs>>

\* mutant: a document that does not parse is written over with the defaults
ConfigStat_Repair ==
    /\ phase = "stat"
    /\ IF doc.exists /\ doc.ok
       THEN /\ phase' = "read"
            /\ UNCHANGED <<doc, created>>
       ELSE /\ created' = TRUE
            /\ doc' = DocOf(SavedFields(cfg))
            /\ phase' = "read"
    /\ UNCHANGED <<svars, cli, exitCode, cfg, dirs, env, flags, logArgs>>

\* config.Load: os.Stat(configPath), and cfg.Save(configPath) when there is
\* no document: os.WriteFile writes the defaults, or fails at the open and
\* leaves no file, or fails later and leaves a part of them
ConfigStat ==
    /\ phase = "stat"
    /\ IF doc.exists
       THEN /\ phase' = "read"
            /\ UNCHANGED <<doc, created>>
       ELSE /\ created' = TRUE
            /\ \/ doc' = DocOf(SavedFields(cfg)) /\ phase' = "read"
               \/ doc' = doc /\ phase' = "cfgfail"
               \/ doc' = BrokenDoc /\ phase' = "cfgfail"
    /\ UNCHANGED <<svars, cli, exitCode, cfg, dirs, env, flags, logArgs>>

\* config.Load: viper.ReadInConfig(), which fails when the file cannot be
\* read or does not parse, then viper.Unmarshal(cfg)
ConfigRead ==
    /\ phase = "read"
    /\ \/ /\ phase' = "cfgfail"
          /\ UNCHANGED cfg
       \/ /\ doc.exists
          /\ IF ~doc.ok \/ ViperUnmarshal(flags, env, doc).err
             THEN phase' = "cfgfail" /\ UNCHANGED cfg
             ELSE phase' = "loaded" /\ cfg' = ViperUnmarshal(flags, env, doc).cfg
    /\ UNCHANGED <<svars, cli, exitCode, doc, dirs, env, flags, logArgs, created>>

\* apiCmd.Run: loadConfigAndLogger returned the error of config.Load:
\* os.Exit(1)
ConfigError ==
    /\ phase = "cfgfail"
    /\ phase' = "exited"
    /\ exitCode' = 1
    /\ UNCHANGED <<svars, cli, cfg, doc, dirs, env, flags, logArgs, created>>

\* loadConfigAndLogger after config.Load: the values of --log-level and
\* --log-format, when not empty, are written over cfg, then
\* logging.Setup(cfg.Logging.Level, cfg.Logging.Format, cfg.DataPath), which
\* fails on a level logrus does not know; apiCmd.Run exits 1 on that error
loadConfigAndLogger ==
    /\ phase = "loaded"
    /\ cfg' = [cfg EXCEPT !.level = IF flags.logLevel # <<>> THEN flags.logLevel ELSE @,
                          !.format = IF flags.logFormat # <<>> THEN flags.logFormat ELSE @]
    /\ logArgs' = [level |-> cfg'.level, format |-> cfg'.format, dataPath |-> cfg'.dataPath]
    /\ IF cfg'.level \in LogLevels
       THEN phase' = "configured" /\ UNCHANGED exitCode
       ELSE phase' = "exited" /\ exitCode' = 1
    /\ UNCHANGED <<svars, cli, doc, dirs, env, flags, created>>

\* apiCmd.Run: --host and --port, when not zero, are written over cfg, then
\* storage.NewMessageStore(cfg.DataPath)
ApiFlags ==
    /\ phase = "configured"
    /\ cfg' = [cfg EXCEPT !.host = IF flags.host # <<>> THEN flags.host ELSE @,
                          !.port = IF flags.port # 0 THEN flags.port ELSE @]
    /\ phase' = "store"
    /\ UNCHANGED <<svars, cli, exitCode, doc, dirs, env, flags, logArgs, created>>

\* apiCmd.Run: store.Load() is called, on the main goroutine
StartupLoad ==
    /\ phase = "store"
    /\ phase' = "loading"
    /\ st' = [st EXCEPT ![1] = ServerStore]
    /\ op' = [op EXCEPT ![1] = "Load"]
    /\ pc' = [pc EXCEPT ![1] = "Lock"]
    /\ UNCHANGED <<data, mu, file, via, arg, buf, body, err, ret, resp, calls, old, cand,
                   lastOp, fileOwner, fileHist>>
    /\ UNCHANGED <<exitCode, cfg, doc, dirs, env, flags, logArgs, created, cli>>

\* mutant: the error of store.Load is logged and the server starts anyway
StartupLoaded_Ignore ==
    /\ phase = "loading"
    /\ pc[1] = "idle"
    /\ phase' = "starting"
    /\ UNCHANGED <<svars, cli, exitCode, cfg, doc, dirs, env, flags, logArgs, created>>

\* apiCmd.Run: store.Load() has returned; on its error logger.Fatal, which
\* exits 1; otherwise on to api.NewServer
StartupLoaded ==
    /\ phase = "loading"
    /\ pc[1] = "idle"
    /\ IF lastOp[ServerStore].ok
       THEN phase' = "starting" /\ UNCHANGED exitCode
       ELSE phase' = "exited" /\ exitCode' = 1
    /\ UNCHANGED <<svars, cli, cfg, doc, dirs, env, flags, logArgs, created>>

\* apiCmd.Run: api.NewServer, then server.Start() in its goroutine: the
\* server listens and serves, or logger.Fatal exits 1
ServerStart ==
    /\ phase = "starting"
    /\ \/ phase' = "serving" /\ UNCHANGED exitCode
       \/ phase' = "exited" /\ exitCode' = 1
    /\ UNCHANGED <<svars, cli, cfg, doc, dirs, env, flags, logArgs, created>>

---------------------------------------------------------------------------
(* setMessageCmd.Run: greetd set message <text>, a process of its own *)

\* the goroutine of the model that runs the command's store calls
CliProc == NumProcs

\* mutant: the arguments are joined with nothing between them
RECURSIVE Join_NoSeparator(_)
Join_NoSeparator(args) ==
    IF args = <<>> THEN <<>>
    ELSE Head(args) \o Join_NoSeparator(Tail(args))

\* strings.Join(args, " ")
RECURSIVE Join(_)
Join(args) ==
    IF args = <<>> THEN <<>>
    ELSE IF Len(args) = 1 THEN args[1]
    ELSE args[1] \o <<" ">> \o Join(Tail(args))

\* mutant: only the empty text is refused
CliRefuses_EmptyOnly(m) == m = <<>>

\* strings.TrimSpace(message) == ""
CliRefuses(m) == TrimSpace(m) = <<>>

\* the lines the command prints
OutConfig == "Error loading config"
OutEmpty == "Error: message cannot be empty"
OutLoad == "Error loading message store"
OutSet == "Error setting message"
OutDone == "Message set to"

\* Run returns after printing line: cmd.Execute() returns nil and main
\* returns, so the status is 0
CliReturn(line) == cli' = [cli EXCEPT !.pc = "done", !.out = line, !.exit = 0]

\* the command is run with arguments a
CliStart ==
    /\ cli.pc \in {"none", "done"}
    /\ calls < MaxCalls
    /\ \E a \in ArgLists :
          cli' = [pc |-> "config", args |-> a, message |-> <<>>, out |-> "", exit |-> -1]
    /\ calls' = calls + 1
    /\ UNCHANGED <<data, mu, file, pc, op, st, via, arg, buf, body, err, ret, resp,
                   old, cand, lastOp, fileOwner, fileHist>>
    /\ UNCHANGED <<phase, exitCode, cfg, doc, dirs, env, flags, logArgs, created>>

\* loadConfigAndLogger() as the command runs it: config.Load (MkdirAll, the
\* document written if there is none, ReadInConfig, Unmarshal), the log
\* flags, logging.Setup; any of them may fail, and then the command prints
\* and returns
CliConfig ==
    /\ cli.pc = "config"
    /\ \/ /\ CliReturn(OutConfig)
          /\ UNCHANGED <<dirs, doc>>
       \/ /\ dirs' = dirs \cup {DefaultConfig.dataPath}
          /\ doc' = IF doc.exists THEN doc ELSE DocOf(SavedFields(DefaultConfig))
          /\ LET r == ViperUnmarshal(flags, env, doc')
                 level == IF flags.logLevel # <<>> THEN flags.logLevel ELSE r.cfg.level
             IN IF doc'.ok /\ ~r.err /\ level \in LogLevels
                THEN cli' = [cli EXCEPT !.pc = "join"]
                ELSE CliReturn(OutConfig)
    /\ UNCHANGED <<svars, phase, exitCode, cfg, env, flags, logArgs, created>>

\* message := strings.Join(args, " "); a blank message is refused; otherwise
\* storage.NewMessageStore(cfg.DataPath) and the call of store.Load()
CliJoin ==
    /\ cli.pc = "join"
    /\ LET message == Join(cli.args)
       IN IF CliRefuses(message)
          THEN /\ CliReturn(OutEmpty)
               /\ UNCHANGED <<data, mu, lastOp, st, op, pc>>
          ELSE /\ pc[CliProc] = "idle"
               /\ cli' = [cli EXCEPT !.pc = "loading", !.message = message]
               /\ data' = [data EXCEPT ![OtherStore] = GoString(DefaultMessage)]
               /\ mu' = [mu EXCEPT ![OtherStore] = [w |-> 0, r |-> {}]]
               /\ lastOp' = [lastOp EXCEPT ![OtherStore] = NoOp]
               /\ st' = [st EXCEPT ![CliProc] = OtherStore]
               /\ op' = [op EXCEPT ![CliProc] = "Load"]
               /\ pc' = [pc EXCEPT ![CliProc] = "Lock"]
    /\ UNCHANGED <<file, via, arg, buf, body, err, ret, resp, calls, old, cand, fileOwner, fileHist>>
    /\ UNCHANGED <<phase, exitCode, cfg, doc, dirs, env, flags, logArgs, created>>

\* store.Load() has returned: on its error the command prints and returns,
\* otherwise it calls store.SetMessage(message)
CliLoaded ==
    /\ cli.pc = "loading"
    /\ pc[CliProc] = "idle"
    /\ lastOp[OtherStore].op \in {"Load", "LoadNew"}
    /\ IF lastOp[OtherStore].ok
       THEN /\ cli' = [cli EXCEPT !.pc = "setting"]
            /\ st' = [st EXCEPT ![CliProc] = OtherStore]
            /\ arg' = [arg EXCEPT ![CliProc] = cli.message]
            /\ op' = [op EXCEPT ![CliProc] = "Set"]
            /\ pc' = [pc EXCEPT ![CliProc] = "Lock"]
       ELSE /\ CliReturn(OutLoad)
            /\ UNCHANGED <<st, arg, op, pc>>
    /\ UNCHANGED <<data, mu, file, via, buf, body, err, ret, resp, calls, old, cand,
                   lastOp, fileOwner, fileHist>>
    /\ UNCHANGED <<phase, exitCode, cfg, doc, dirs, env, flags, logArgs, created>>

\* store.SetMessage(message) has returned: the command prints its error or
\* "Message set to: ..." and returns
CliSetDone ==
    /\ cli.pc = "setting"
    /\ pc[CliProc] = "idle"
    /\ lastOp[OtherStore].op = "Set"
    /\ CliReturn(IF lastOp[OtherStore].ok THEN OutDone ELSE OutSet)
    /\ UNCHANGED <<svars, phase, exitCode, cfg, doc, dirs, env, flags, logArgs, created>>

---------------------------------------------------------------------------
(* apiCmd.Run: the signal, server.Shutdown, the end of the process *)

\* the process ends: its goroutines are gone wherever they stood, and so
\* are the locks they held; the file stays as the last write left it
Halt ==
    /\ pc' = [p \in Procs |-> "idle"]
    /\ op' = [p \in Procs |-> ""]
    /\ via' = [p \in Procs |-> ""]
    /\ st' = [p \in Procs |-> ServerStore]
    /\ arg' = [p \in Procs |-> <<>>]
    /\ buf' = [p \in Procs |-> <<>>]
    /\ body' = [p \in Procs |-> <<>>]
    /\ err' = [p \in Procs |-> FALSE]
    /\ ret' = [p \in Procs |-> <<>>]
    /\ resp' = [p \in Procs |-> NoResp]
    /\ old' = [p \in Procs |-> <<>>]
    /\ cand' = [p \in Procs |-> {}]
    /\ mu' = [s \in Stores |-> [w |-> 0, r |-> {}]]

\* SIGINT or SIGTERM arrives on quit while the server serves: the main
\* goroutine calls server.Shutdown(ctx) with its 10 second deadline, which
\* closes the listener; the requests in progress go on
Signal ==
    /\ phase = "serving"
    /\ phase' = "stopping"
    /\ UNCHANGED <<svars, cli, exitCode, cfg, doc, dirs, env, flags, logArgs, created>>

\* the serving goroutine: the listener is closed, so server.Start() returns
\* http.ErrServerClosed, which is not nil: logger.Fatal("Server failed to
\* start") exits 1
ServeClosed ==
    /\ phase = "stopping"
    /\ phase' = "fatal"
    /\ exitCode' = 1
    /\ Halt
    /\ UNCHANGED <<data, file, calls, lastOp, fileOwner, fileHist>>
    /\ UNCHANGED <<cli, cfg, doc, dirs, env, flags, logArgs, created>>

\* the main goroutine: server.Shutdown returns, nil once no request is in
\* progress or the deadline's error while some still are (it is logged);
\* Run returns and the process ends with status 0
ShutdownReturn ==
    /\ phase = "stopping"
    /\ phase' = "returned"
    /\ exitCode' = 0
    /\ Halt
    /\ UNCHANGED <<data, file, calls, lastOp, fileOwner, fileHist>>
    /\ UNCHANGED <<cli, cfg, doc, dirs, env, flags, logArgs, created>>

---------------------------------------------------------------------------
(* Specification *)

Next ==
    \E p \in Procs :
        \/ SetMessageCall(p)
        \/ LoadCall(p)
        \/ GetMessageCall(p)
        \/ HandlersGetMessage(p)
        \/ HandlersSetMessage(p)
        \/ SetMessageLock(p)
        \/ LoadLock(p)
        \/ AssignLen(p)
        \/ saveUnsafeOpen(p)
        \/ saveUnsafeWrite(p)
        \/ Unlock(p)
        \/ LoadReadFile(p)
        \/ RLock(p)
        \/ RUnlock(p)
        \/ Respond(p)

Spec == Init /\ [][Next]_vars

\* a command loading its configuration, up to the creation of its store
NextConfig ==
    \/ ConfigLoad
    \/ ConfigStat
    \/ ConfigRead
    \/ ConfigError
    \/ loadConfigAndLogger
    \/ ApiFlags

SpecConfig == InitConfig /\ [][NextConfig]_vars

\* the api command from its start: configuration, the store's Load, the
\* server, and the requests it serves
NextApi ==
    \/ ConfigLoad
    \/ ConfigStat
    \/ ConfigRead
    \/ ConfigError
    \/ loadConfigAndLogger
    \/ ApiFlags
    \/ StartupLoad
    \/ StartupLoaded
    \/ ServerStart
    \/ \E p \in Procs :
        \/ HandlersGetMessage(p)
        \/ HandlersSetMessage(p)
        \/ SetMessageLock(p)
        \/ LoadLock(p)
        \/ AssignLen(p)
        \/ saveUnsafeOpen(p)
        \/ saveUnsafeWrite(p)
        \/ Unlock(p)
        \/ LoadReadFile(p)
        \/ RLock(p)
        \/ RUnlock(p)
        \/ Respond(p)

SpecApi == InitApi /\ [][NextApi]_vars

\* the set message command, and the requests of the server beside it
NextCli ==
    \/ CliStart
    \/ CliConfig
    \/ CliJoin
    \/ CliLoaded
    \/ CliSetDone
    \/ \E p \in Procs :
        \/ HandlersGetMessage(p)
        \/ HandlersSetMessage(p)
        \/ SetMessageLock(p)
        \/ LoadLock(p)
        \/ AssignLen(p)
        \/ saveUnsafeOpen(p)
        \/ saveUnsafeWrite(p)
        \/ Unlock(p)
        \/ LoadReadFile(p)
        \/ RLock(p)
        \/ RUnlock(p)
        \/ Respond(p)

SpecCli == InitCli /\ [][NextCli]_vars

\* the running server, its requests, and the signal that stops it
NextShutdown ==
    \/ Signal
    \/ ServeClosed
    \/ ShutdownReturn
    \/ \E p \in Procs :
        \/ HandlersGetMessage(p)
        \/ HandlersSetMessage(p)
        \/ SetMessageLock(p)
        \/ AssignLen(p)
        \/ saveUnsafeOpen(p)
        \/ saveUnsafeWrite(p)
        \/ Unlock(p)
        \/ RLock(p)
        \/ RUnlock(p)
        \/ Respond(p)

SpecShutdown == Init /\ [][NextShutdown]_vars

\* the stores on a directory whose message.json does not load
SpecLoad == InitLoad /\ [][Next]_vars

---------------------------------------------------------------------------
(* Where a call stands *)

\* p is between s.mu.Lock() and s.mu.Unlock() of a SetMessage or a Load on s
Writing(p, s) ==
    st[p] = s /\ pc[p] \in {"AssignLen", "SaveOpen", "SaveWrite", "ReadFile", "Unlock"}

\* p is between s.mu.RLock() and s.mu.RUnlock() of a GetMessage on s
Reading(p, s) == st[p] = s /\ pc[p] = "RUnlock"

\* no SetMessage and no Load on s has been called and not yet returned
Quiet(s) == \A p \in Procs : ~(st[p] = s /\ (pc[p] = "Lock" \/ Writing(p, s)))

\* the message the file holds is m
FileHolds(m) ==
    /\ file.exists
    /\ ~Unmarshal(file.bytes).err
    /\ Unmarshal(file.bytes).set
    /\ Unmarshal(file.bytes).Message = m

---------------------------------------------------------------------------
(* Claims *)

\* C1: SetMessage calls on one instance are linearized.  No two of them
\* are between Lock and Unlock at once; and once the calls on an instance
\* have returned, the last of them to return having succeeded with value m,
\* the instance holds m, and the file, if that instance wrote it last,
\* deserializes to m.
C1_WritesLinearized ==
    /\ \A p, q \in Procs, s \in Stores :
          (p # q /\ op[p] = "Set" /\ op[q] = "Set" /\ Writing(p, s)) => ~Writing(q, s)
    /\ \A s \in Stores :
          (Quiet(s) /\ lastOp[s].op = "Set" /\ lastOp[s].ok)
          => /\ Value(data[s]) = lastOp[s].msg
             /\ lastOp[s].msg \in Messages
             /\ (fileOwner = s => FileHolds(lastOp[s].msg))

\* C1 witness: two SetMessage calls with distinct values were made at once
\* on one instance; one has returned successfully, the other has written
\* the file in its turn and is about to return.
C1_Witness ==
    \E p \in Procs, s \in Stores :
        /\ op[p] = "Set" /\ st[p] = s /\ pc[p] = "Unlock" /\ ~err[p]
        /\ lastOp[s].op = "Set" /\ lastOp[s].ok
        /\ lastOp[s].msg # arg[p] /\ old[p] = lastOp[s].msg
        /\ calls = 2
        /\ FileHolds(arg[p])

\* C2: a SetMessage whose file write fails returns an error and leaves the
\* in-memory value as it was before the call.  (The code stores the value
\* first and writes the file after: this is violated.)
C2_FailedWriteKeepsMemory ==
    \A p \in Procs :
        (op[p] = "Set" /\ pc[p] = "Unlock" /\ err[p]) => Value(data[st[p]]) = old[p]

\* C3: while a SetMessage or a Load on an instance is between Lock and
\* Unlock (from its store to the in-memory value to the end of its file
\* write), no other call on that instance is inside the lock, reader or
\* writer.
C3_WriterExcludesAll ==
    \A p, q \in Procs, s \in Stores :
        (p # q /\ Writing(p, s)) => ~(Writing(q, s) \/ Reading(q, s))

\* C3 witness: two GetMessage calls hold the read lock of one instance at once.
C3_Witness ==
    \E p, q \in Procs, s \in Stores :
        /\ p # q /\ Reading(p, s) /\ Reading(q, s)
        /\ mu[s].r = {p, q}

\* C4: a GetMessage returns the value the instance held when it was called
\* or a value a SetMessage (or Load) stored in full while it was in
\* progress, never anything else.
C4_ReadIsPreOrPost ==
    \A p \in Procs : (op[p] = "Get" /\ pc[p] = "RUnlock") => ret[p] \in cand[p]

\* C4 witness: a GetMessage called while another value was held returns the
\* value a SetMessage stored while it waited.
C4_Witness ==
    \E p \in Procs :
        /\ op[p] = "Get" /\ pc[p] = "RUnlock"
        /\ Cardinality(cand[p]) = 2
        /\ ret[p] \in Messages

\* C5: every value GetMessage returns is one the file has held as a
\* complete document.  The constructor's default is left out of the
\* statement; the code still violates it, by the value a failed SetMessage
\* left in memory.
C5_ReadWasOnDisk ==
    \A p \in Procs :
        (op[p] = "Get" /\ pc[p] = "RUnlock" /\ ret[p] # DefaultMessage) => ret[p] \in fileHist

\* C6: round trip.  A GetMessage on an instance whose last returned write
\* was a successful SetMessage(m) returns m; and a Load on another
\* instance of the same directory that reads the file as that SetMessage
\* left it succeeds, and leaves m in that instance, which a GetMessage on it
\* then returns.
C6_RoundTrip ==
    /\ \A p \in Procs, s \in Stores :
          (op[p] = "Get" /\ Reading(p, s) /\ lastOp[s].op = "Set" /\ lastOp[s].ok)
          => ret[p] = lastOp[s].msg
    /\ \A q \in Procs, s, u \in Stores :
          (/\ s # u
           /\ Quiet(s) /\ lastOp[s].op = "Set" /\ lastOp[s].ok /\ fileOwner = s
           /\ op[q] = "Load" /\ st[q] = u /\ pc[q] = "Unlock"
           /\ file.exists /\ buf[q] = file.bytes)
          => ~err[q] /\ Value(data[u]) = lastOp[s].msg
    /\ \A p \in Procs, u \in Stores :
          (op[p] = "Get" /\ Reading(p, u)
           /\ lastOp[u].op = "Load" /\ lastOp[u].ok /\ lastOp[u].set)
          => ret[p] = lastOp[u].msg

\* C6 witness: SetMessage of a text with a leading blank and a quote has
\* succeeded on one instance, and a Load on the other instance has read
\* that file and is about to return with the same text in memory.
C6_Witness ==
    \E q \in Procs :
        /\ op[q] = "Load" /\ st[q] = ServerStore /\ pc[q] = "Unlock" /\ ~err[q]
        /\ lastOp[OtherStore] = [op |-> "Set", ok |-> TRUE, set |-> TRUE, msg |-> MsgB]
        /\ fileOwner = OtherStore /\ Quiet(OtherStore)
        /\ buf[q] = file.bytes
        /\ Value(data[ServerStore]) = MsgB

\* C7: a Load that finds no file and returns success leaves the default in
\* memory and, if no other instance has written since, in the file.  (Load
\* writes whatever the instance holds: this is violated once a failed
\* SetMessage has left its value in memory.)
C7_LoadCreatesDefault ==
    \A p \in Procs :
        (op[p] = "LoadNew" /\ pc[p] = "Unlock" /\ ~err[p])
        => /\ Value(data[st[p]]) = DefaultMessage
           /\ (fileOwner = st[p] => FileHolds(DefaultMessage))

\* the bytes do not decode as a message document: json.Unmarshal rejects them
Malformed(bytes) == Unmarshal(bytes).err

\* C8: a Load that finds the file and reads bytes that do not decode
\* returns an error, and no step of a Load that found the file changes the
\* file.
C8_CorruptFileIsAnError ==
    /\ [](\A p \in Procs :
            (op[p] = "Load" /\ pc[p] = "Unlock" /\ Malformed(buf[p])) => err[p])
    /\ [][\A p \in Procs :
            (op[p] = "Load" /\ pc'[p] # pc[p]) => file' = file]_vars

\* C8 witness: a Load has read a half-written document left by a failed
\* write, and is about to return its error with the file as it found it.
C8_Witness ==
    \E p \in Procs :
        /\ op[p] = "Load" /\ pc[p] = "Unlock" /\ err[p]
        /\ buf[p] # <<>> /\ Malformed(buf[p])
        /\ file = FileOf(buf[p])
        /\ fileOwner # "none"

Refused(b) == ~checkValid(b) \/ Unmarshal(b).err \/ TrimSpace(Unmarshal(b).Message) = <<>>

C11_PostStoresAndEchoes ==
    /\ \A p \in Procs :
          (via[p] = "http" /\ op[p] = "Set")
          => /\ ~Refused(body[p])
             /\ arg[p] = Unmarshal(body[p]).Message
             /\ pc[p] \in {"SaveOpen", "SaveWrite", "Unlock"}
                => Value(data[ServerStore]) = Unmarshal(body[p]).Message
             /\ (pc[p] = "Respond" /\ ~err[p])
                => resp[p] = [code |-> 200, error |-> FALSE,
                              message |-> Unmarshal(body[p]).Message]
    /\ \A p \in Procs :
          (via[p] = "http" /\ op[p] = "Get")
          => /\ (Reading(p, ServerStore)
                 /\ lastOp[ServerStore].op = "Set" /\ lastOp[ServerStore].ok)
                => ret[p] = lastOp[ServerStore].msg
             /\ pc[p] = "Respond"
                => resp[p] = [code |-> 200, error |-> FALSE, message |-> ret[p]]

\* C11 witness: a POST of a text with a leading blank and a quote was
\* answered 200, and a GET after it is being answered with that text.
C11_Witness ==
    \E p \in Procs :
        /\ via[p] = "http" /\ op[p] = "Get" /\ pc[p] = "Respond"
        /\ cand[p] = {MsgB}
        /\ lastOp[ServerStore] = [op |-> "Set", ok |-> TRUE, set |-> TRUE, msg |-> MsgB]
        /\ TrimSpace(MsgB) # MsgB
        /\ resp[p].code = 200 /\ resp[p].message = MsgB

\* C13: GET /message is answered 200 with the message the server's
\* instance holds in memory when GetMessage reads it, and no step of the
\* request changes the in-memory value or the file.
C13_GetOnlyReads ==
    /\ [](\A p \in Procs :
            (via[p] = "http" /\ op[p] = "Get")
            => /\ st[p] = ServerStore
               /\ Reading(p, ServerStore) => ret[p] = Value(data[ServerStore])
               /\ pc[p] = "Respond"
                  => (resp[p].code = 200 /\ ~resp[p].error /\ resp[p].message = ret[p]))
    /\ [][\A p \in Procs :
            (via'[p] = "http" /\ op'[p] = "Get" /\ pc'[p] # pc[p])
            \/ (via[p] = "http" /\ op[p] = "Get" /\ pc'[p] # pc[p])
            => (data' = data /\ file' = file)]_vars

\* C13 witness: on a server that never loaded and has no message.json, a
\* GET is being answered 200 with the constructor's message.
C13_Witness ==
    \E p \in Procs :
        /\ via[p] = "http" /\ op[p] = "Get" /\ pc[p] = "Respond"
        /\ ~file.exists /\ lastOp[ServerStore].op = "none"
        /\ resp[p] = [code |-> 200, error |-> FALSE, message |-> DefaultMessage]

\* C12: a POST /message whose store.SetMessage fails is answered 500 with
\* an error field, never 200, with the store's lock released; and no step
\* of a request takes the serving process out of serving.
C12_StoreFailureIs500 ==
    /\ [](\A p \in Procs :
            (via[p] = "http" /\ op[p] = "Set" /\ pc[p] = "Respond")
            => /\ mu[ServerStore].w # p
               /\ err[p] => (resp[p].code = 500 /\ resp[p].error)
               /\ resp[p].code = 200 => ~err[p])
    /\ [][\A p \in Procs :
            (phase = "serving" /\ pc'[p] # pc[p])
            => (phase' = "serving" /\ exitCode' = exitCode)]_vars

\* C12 witness: the server answered a POST 500 after a failed write, the
\* request is over, and a GET after it is being answered 200.
C12_Witness ==
    \E p \in Procs :
        /\ phase = "serving"
        /\ lastOp[ServerStore].op = "Set" /\ ~lastOp[ServerStore].ok
        /\ \A q \in Procs : q # p => pc[q] = "idle"
        /\ via[p] = "http" /\ op[p] = "Get" /\ pc[p] = "Respond"
        /\ cand[p] = {lastOp[ServerStore].msg}
        /\ resp[p].code = 200

\* the port, and the other fields, as the documented precedence gives them:
\* the flag if supplied, else the documented environment variable if set,
\* else the document's key if present, else the built-in default
Documented(flagSet, flagVal, name, key) ==
    IF flagSet THEN flagVal
    ELSE IF name \in DOMAIN env THEN StrVal(env[name])
    ELSE IF doc.ok /\ key \in DOMAIN doc.fields THEN doc.fields[key]
    ELSE SavedFields(DefaultConfig)[key]

\* C14: the effective port of the api command is the --port flag's, else
\* GREETD_SERVER_PORT's, else the document's, else 8080.  (viper looks the
\* environment up under GREETD_SERVER.PORT: this is violated when the port
\* comes from the documented variable.)
C14_PortPrecedence ==
    (phase = "store" /\ DOMAIN env \subseteq DOMAIN AllEnv)
    => cfg.port = decodeInt(Documented(flags.portSet, IntVal(flags.port),
                                       EnvServerPort, KeyPort)).n

\* C15: with no flag supplied, config.Load returns for each field the value
\* of its GREETD_ variable when that variable is set.  (Only
\* GREETD_DATA_PATH is looked up under its documented name: this is
\* violated for the four others.)
C15_EnvOverridesEachField ==
    (phase = "loaded" /\ flags = NoFlags)
    => /\ EnvServerHost \in DOMAIN env => cfg.host = env[EnvServerHost]
       /\ EnvServerPort \in DOMAIN env => cfg.port = ParseInt(env[EnvServerPort]).n
       /\ EnvLoggingLevel \in DOMAIN env => cfg.level = env[EnvLoggingLevel]
       /\ EnvLoggingFormat \in DOMAIN env => cfg.format = env[EnvLoggingFormat]
       /\ EnvDataPath \in DOMAIN env => cfg.dataPath = env[EnvDataPath]

\* C16: logging.Setup is passed the flag's level and format when the flag
\* was supplied, and otherwise the environment's, else the document's, else
\* the default; stated here for an empty environment, where the lookup of
\* the variables plays no part.  (A flag that was not supplied holds its
\* default "info" or "text", which is not empty and is written over cfg:
\* this is violated by a document that sets another level.)
C16_LogFlagsOnlyWhenSupplied ==
    (logArgs # NoLogArgs /\ env = NoEnv)
    => /\ logArgs.level = decodeString(Documented(flags.logLevelSet, StrVal(flags.logLevel),
                                                  EnvLoggingLevel, KeyLevel))
       /\ logArgs.format = decodeString(Documented(flags.logFormatSet, StrVal(flags.logFormat),
                                                   EnvLoggingFormat, KeyFormat))

\* C17: when config.Load found no document and returns a configuration,
\* the document now holds the built-in defaults, and the configuration is
\* those defaults where no environment variable or flag overrides them; a
\* document that exists and parses is never changed.
C17_FirstRunWritesDefaults ==
    /\ []((phase = "loaded" /\ created)
          => /\ doc = DocOf(SavedFields(DefaultConfig))
             /\ (env = NoEnv /\ flags = NoFlags) => cfg = DefaultConfig)
    /\ [][(phase = "stat" /\ ~doc.exists /\ phase' = "read")
          => (created' /\ doc' = DocOf(SavedFields(DefaultConfig)))]_vars
    /\ [][(doc.exists /\ doc.ok) => doc' = doc]_vars

\* C17 witness: config.Load found no document, wrote the defaults and has
\* returned them.
C17_Witness ==
    /\ phase = "loaded" /\ created
    /\ env = NoEnv /\ flags = NoFlags
    /\ doc = DocOf(SavedFields(DefaultConfig))
    /\ cfg = DefaultConfig

\* C18: config.Load on a document that exists and does not parse returns an
\* error and leaves the document as it is; a document is only ever written
\* where there was none.
C18_BrokenConfigIsAnError ==
    /\ [][(phase = "read" /\ doc.exists /\ ~doc.ok) => phase' = "cfgfail"]_vars
    /\ [](doc.exists /\ ~doc.ok => phase \notin {"loaded", "configured", "store"})
    /\ [][doc' # doc => ~doc.exists]_vars

\* C18 witness: config.Load has returned its error on a document that was
\* there and does not parse, and the document is as it was.
C18_Witness ==
    /\ phase = "cfgfail"
    /\ ~created
    /\ doc = BrokenDoc
    /\ DefaultDataPath \in dirs

\* C19: when config.Load returns a configuration, the directory its
\* DataPath names exists.  (Load creates the default directory before it
\* reads the document and the environment, and none after: this is
\* violated when data_path is set by either.)
C19_DataDirExists ==
    phase = "loaded" => cfg.dataPath \in dirs

\* C20: when the api command starts, a failure of config.Load or of the
\* initial store.Load ends the process with a status that is not zero, and
\* no request is handled before the server has been started.
C20_StartupFailureExits ==
    /\ [](phase \notin {"serving", "exited"}
          => (calls = 0 /\ \A p \in Procs : via[p] # "http"))
    /\ [](phase = "exited" => (exitCode # 0 /\ calls = 0))
    /\ [][(\/ phase = "cfgfail"
           \/ (phase = "loading" /\ pc[1] = "idle" /\ ~lastOp[ServerStore].ok))
          => (phase' = "exited" /\ exitCode' # 0)]_vars

\* C20 witness: the initial store.Load found a message.json that does not
\* decode and returned its error, and the process has exited 1 with no
\* request handled.
C20_Witness ==
    /\ phase = "exited" /\ exitCode = 1
    /\ lastOp[ServerStore].op = "Load" /\ ~lastOp[ServerStore].ok
    /\ file.exists /\ Malformed(file.bytes)
    /\ calls = 0

\* C27: a SetMessage call attempts the file write once.  It enters
\* saveUnsafe only from its assignment; a failure at the open or at the
\* write takes it straight to its return, never back to the write; and it
\* returns the error of that one attempt.
C27_OneWriteAttempt ==
    [][\A p \in Procs :
          op[p] = "Set"
          => /\ (pc'[p] = "SaveOpen" /\ pc[p] # "SaveOpen") => pc[p] = "AssignLen"
             /\ (pc[p] = "SaveOpen" /\ pc'[p] # "SaveOpen")
                => (pc'[p] \in {"SaveWrite", "Unlock"} /\ (err'[p] <=> pc'[p] = "Unlock"))
             /\ (pc[p] = "SaveWrite" /\ pc'[p] # "SaveWrite") => pc'[p] = "Unlock"
             /\ (pc[p] = "Unlock" /\ pc'[p] # "Unlock")
                => (pc'[p] \in {"idle", "Respond"} /\ lastOp'[st[p]].ok = ~err[p])]_vars

\* C27 witness: a SetMessage whose write failed part way is about to return
\* its error, the file holding the part that was written.
C27_Witness ==
    \E p \in Procs :
        /\ op[p] = "Set" /\ pc[p] = "Unlock" /\ err[p]
        /\ file = FileOf(SubSeq(MarshalIndent(arg[p]), 1, 4))
        /\ fileOwner = st[p]

\* C25: on the server, whose Load has succeeded and which is the only
\* process writing the directory, whenever no SetMessage and no Load is in
\* progress, message.json decodes and the message it deserializes to is the
\* one held in memory; stated for the states that follow a SetMessage that
\* returned an error.  (The failed SetMessage has left its value in memory
\* and the old or a partial document in the file: this is violated.)
C25_MemoryEqualsDisk ==
    (/\ phase = "serving" /\ Quiet(ServerStore)
     /\ lastOp[ServerStore].op = "Set" /\ ~lastOp[ServerStore].ok)
    => FileHolds(Value(data[ServerStore]))

\* C28: a Load that returns an error leaves the instance's in-memory value
\* as it was when the call began, and no step of it changes the file.
\* (json.Unmarshal decodes into s.data and stores a "message" string it
\* meets before it reports a later value of the wrong type: this is
\* violated.)
C28_FailedLoadChangesNothing ==
    /\ [](\A p \in Procs :
            (op[p] = "Load" /\ pc[p] = "Unlock" /\ err[p])
            => Value(data[st[p]]) = old[p])
    /\ [][\A p \in Procs :
            (op[p] = "Load" /\ err'[p] /\ pc'[p] # pc[p]) => file' = file]_vars

\* C23: Save then Load round-trips.  When the document is what Config.Save
\* wrote for a configuration c, and the environment and the command line
\* override nothing, config.Load returns the host, port, log level and log
\* format of c.
C23_SaveLoadRoundTrip ==
    \A c \in SavedConfigs :
        (/\ phase = "loaded"
         /\ doc = DocOf(SavedFields(c))
         /\ env = NoEnv /\ flags = NoFlags)
        => /\ cfg.host = c.host
           /\ cfg.port = c.port
           /\ cfg.level = c.level
           /\ cfg.format = c.format

\* C23 witness: config.Load has returned the four values of a saved
\* configuration that differ from the defaults, from a document it did not
\* write itself.
C23_Witness ==
    /\ phase = "loaded" /\ ~created
    /\ doc = DocOf(SavedFields(FullConfig))
    /\ env = NoEnv /\ flags = NoFlags
    /\ cfg.host = FullConfig.host /\ cfg.host # DefaultConfig.host
    /\ cfg.port = 9000
    /\ cfg.level = FullConfig.level /\ cfg.format = FullConfig.format

\* C29: the data directory of a configuration that config.Load returned is
\* not the empty path.  (A document whose data_path is the empty string is
\* taken as it is: this is violated.)
C29_DataPathNotEmpty ==
    phase = "loaded" => cfg.dataPath # <<>>

\* C24: once the signal has arrived on the serving process, the process
\* ends by Run returning after server.Shutdown has returned, with status
\* 0, and not by the serving goroutine's logger.Fatal.  (Shutdown makes
\* server.Start return http.ErrServerClosed, which the goroutine treats as
\* a failure to start: this is violated.)
C24_GracefulShutdown ==
    phase \in {"fatal", "returned"} => (phase = "returned" /\ exitCode = 0)

\* C21: when set message ends on a failure of the configuration, of
\* store.Load or of store.SetMessage, it has printed a line saying so and
\* its exit status is not 0.  (Run prints and returns, Execute returns nil
\* and main returns: the status is 0.  This is violated.)
C21_CliFailureExitsNonZero ==
    (cli.pc = "done" /\ cli.out \in {OutConfig, OutLoad, OutSet})
    => cli.exit # 0

\* the place of argument i in the joined text: after the arguments before
\* it and one character for each of them
RECURSIVE Offset(_, _)
Offset(args, i) == IF i = 1 THEN 0 ELSE Offset(args, i - 1) + Len(args[i - 1]) + 1

\* m is the arguments in their order with exactly one space between two
\* neighbours and nothing else
SpaceJoined(args, m) ==
    /\ Len(m) = Offset(args, Len(args)) + Len(args[Len(args)])
    /\ \A i \in 1..Len(args) :
          /\ SubSeq(m, Offset(args, i) + 1, Offset(args, i) + Len(args[i])) = args[i]
          /\ i < Len(args) => m[Offset(args, i) + Len(args[i]) + 1] = " "

\* C30: set message joins its arguments with single spaces.  When the
\* joined text is blank it prints an error and returns without a call of
\* the store and without a change to the file; otherwise it calls
\* store.Load(), and store.SetMessage with the joined text only after that
\* Load has returned without error.
C30_CliJoinsThenLoadsThenSets ==
    /\ [](cli.pc \in {"loading", "setting"}
          => (SpaceJoined(cli.args, cli.message) /\ TrimSpace(cli.message) # <<>>))
    /\ []((cli.pc = "setting" /\ op[CliProc] = "Set" /\ st[CliProc] = OtherStore)
          => arg[CliProc] = cli.message)
    /\ [][(cli.pc = "join" /\ cli'.pc # "join")
          => IF \A i \in 1..Len(cli.args) : TrimSpace(cli.args[i]) = <<>>
             THEN /\ cli'.pc = "done" /\ cli'.out = OutEmpty
                  /\ pc' = pc /\ op' = op /\ file' = file
             ELSE /\ cli'.pc = "loading"
                  /\ op'[CliProc] = "Load" /\ st'[CliProc] = OtherStore]_vars
    /\ [][(cli'.pc = "setting" /\ cli.pc # "setting")
          => /\ cli.pc = "loading"
             /\ lastOp[OtherStore].op \in {"Load", "LoadNew"} /\ lastOp[OtherStore].ok
             /\ op'[CliProc] = "Set"]_vars
    /\ [][\A p \in Procs :
            (st'[p] = OtherStore /\ op'[p] = "Set" /\ op[p] # "Set")
            => cli'.pc = "setting"]_vars

\* C30 witness: the command run with two arguments has loaded the store
\* and its SetMessage of the two words with one space between them has
\* written the file.
C30_Witness ==
    /\ cli.pc = "setting" /\ cli.args = <<MsgA, <<"b">>>>
    /\ cli.message = <<"a", " ", "b">>
    /\ op[CliProc] = "Set" /\ pc[CliProc] = "Unlock" /\ ~err[CliProc]
    /\ FileHolds(<<"a", " ", "b">>)

\* C22: once set message has completed successfully, and until the file is
\* written again, a GET /message of the server running on the same data
\* directory reads the text the command stored.  (The server answers from
\* the memory of its own MessageStore, which it loaded at startup and
\* never reads again: this is violated.)
C22_CliWriteIsServed ==
    [][\A p \in Procs :
          (/\ phase = "serving"
           /\ cli.pc = "done" /\ cli.out = OutDone
           /\ fileOwner = OtherStore /\ FileHolds(cli.message)
           /\ via[p] = "http" /\ op[p] = "Get"
           /\ pc[p] = "RLock" /\ pc'[p] = "RUnlock")
          => ret'[p] = cli.message]_vars

\* the texts the requests and the command are given that are not refused
Supplied ==
    {Unmarshal(b).Message : b \in {x \in Bodies : ~Refused(x)}}
    \cup {Join(a) : a \in {x \in ArgLists : \E i \in 1..Len(x) : TrimSpace(x[i]) # <<>>}}

\* C26: from an empty data directory, whatever POST /message requests and
\* set message runs are made, valid or not, the message an instance holds
\* and the message a decodable message.json holds is the default or a
\* supplied text exactly as it was supplied, and never blank; after a
\* SetMessage the instance holds the text it was given, untrimmed.
C26_MessageNeverBlank ==
    /\ \A s \in Stores :
          /\ TrimSpace(Committed(s)) # <<>>
          /\ Committed(s) \in {DefaultMessage} \cup Supplied
          /\ (Quiet(s) /\ lastOp[s].op = "Set") => Value(data[s]) = lastOp[s].msg
    /\ (file.exists /\ ~Unmarshal(file.bytes).err)
       => /\ Unmarshal(file.bytes).set
          /\ TrimSpace(Unmarshal(file.bytes).Message) # <<>>
          /\ Unmarshal(file.bytes).Message \in {DefaultMessage} \cup Supplied

\* C26 witness: beside a server that holds the default, the command has
\* stored a text with a leading blank, and the command's store and the
\* file hold it with the blank.
C26_Witness ==
    /\ phase = "serving"
    /\ cli.pc = "done" /\ cli.out = OutDone
    /\ cli.message = MsgB /\ TrimSpace(MsgB) # MsgB
    /\ Value(data[OtherStore]) = MsgB
    /\ FileHolds(MsgB)
    /\ Value(data[ServerStore]) = DefaultMessage

====
